---- MODULE Spec2Model ----
(***************************************************************************)
(* Model of test-python/app.py: a script that writes two banner lines,     *)
(* then loops forever: it increments `count`, writes one status line       *)
(* chosen by an if/elif/else chain on count % 8, count % 12 and count % 5, *)
(* and sleeps 3 seconds.                                                   *)
(*                                                                         *)
(* A line of text is a sequence of tokens.  A non-ASCII character of the   *)
(* source is the token naming its code point ("U+274C"), a decimal digit   *)
(* produced by formatting an integer is a one-character token, and every   *)
(* other run of literal characters is one token.  print() appends "\n".    *)
(***************************************************************************)
EXTENDS Naturals, Integers, Sequences, FiniteSets, TLC

VARIABLES
    pc,         \* line of app.py about to be executed ("done": end of module)
    count,      \* the module-level name `count`
    last,       \* the line written most recently (NoLine before the first)
    nlines,     \* lines written so far, both streams together
    inPass,     \* lines written since the current loop pass began
    passes,     \* loop passes begun so far
    elapsed,    \* seconds gone by since `last` was written
    sleeps      \* calls of time.sleep completed since `last` was written

vars == <<pc, count, last, nlines, inPass, passes, elapsed, sleeps>>

----------------------------------------------------------------------------
(* Bounds of the model *)

\* the loop is explored up to this value of count
MaxCount == 60

\* time.sleep may overrun its argument by up to this many seconds
MaxJitter == 1

----------------------------------------------------------------------------
(* Constants of the program *)

\* time.sleep(3)
SleepInterval == 3

\* random.randint(1, 100)
RandLo == 1
RandHi == 100

----------------------------------------------------------------------------
(* Text *)

Digits == <<"0", "1", "2", "3", "4", "5", "6", "7", "8", "9">>

\* Str with the digits in the wrong order
RECURSIVE Str_reversed(_)
Str_reversed(n) ==
    IF n < 10 THEN <<Digits[n + 1]>>
    ELSE <<Digits[(n % 10) + 1]>> \o Str_reversed(n \div 10)

\* format of a non-negative int in an f-string replacement field: decimal,
\* most significant digit first, no padding
RECURSIVE Str(_)
Str(n) ==
    IF n < 10 THEN <<Digits[n + 1]>>
    ELSE Str(n \div 10) \o <<Digits[(n % 10) + 1]>>

NoLine == [stream |-> "none", text |-> <<>>]

\* print(s, file=f): s followed by a newline, on stream f
WriteLine(s, f) == [stream |-> f, text |-> s \o <<"\n">>]

StartingLine ==
    WriteLine(<<"U+1F40D", " Starting Python application...">>, "stdout")

ProjectLine ==
    WriteLine(<<"U+1F4C1", " Project: test-python">>, "stdout")

\* the import-error line without file=sys.stderr
ImportErrorLine_stdout ==
    WriteLine(<<"U+274C", " ImportError: No module named 'requests'">>,
              "stdout")

ImportErrorLine ==
    WriteLine(<<"U+274C", " ImportError: No module named 'requests'">>,
              "stderr")

\* the success line sent to the error stream
SuccessLine_stderr ==
    WriteLine(<<"U+2705", " Database connection successful">>, "stderr")

SuccessLine ==
    WriteLine(<<"U+2705", " Database connection successful">>, "stdout")

BatchLine(r) ==
    WriteLine(<<"U+1F4CA", " Processing data batch ">> \o Str(r), "stdout")

InfoLine(n) ==
    WriteLine(<<"[INFO] Application running - iteration ">> \o Str(n),
              "stdout")

\* random.randint(0, 100)
RandInt_from0 == 0 .. RandHi

\* the values random.randint(1, 100) can return
RandInt == RandLo .. RandHi

----------------------------------------------------------------------------
(* Steps *)

\* the effect of one print call on the observation variables
Emit(line) ==
    /\ last' = line
    /\ nlines' = nlines + 1
    /\ inPass' = inPass + 1
    /\ elapsed' = 0
    /\ sleeps' = 0

\* count is not bound before line 9 and nothing reads it before then; the 0
\* it holds here stands for "unbound"
Init ==
    /\ pc = "L6"
    /\ count = 0
    /\ last = NoLine
    /\ nlines = 0
    /\ inPass = 0
    /\ passes = 0
    /\ elapsed = 0
    /\ sleeps = 0

\* line 6
EmitStarting ==
    /\ pc = "L6"
    /\ Emit(StartingLine)
    /\ pc' = "L7"
    /\ UNCHANGED <<count, passes>>

\* line 7
EmitProject ==
    /\ pc = "L7"
    /\ Emit(ProjectLine)
    /\ pc' = "L9"
    /\ UNCHANGED <<count, passes>>

\* count = 1
AssignCount_one ==
    /\ pc = "L9"
    /\ count' = 1
    /\ pc' = "L10"
    /\ UNCHANGED <<last, nlines, inPass, passes, elapsed, sleeps>>

\* line 9
AssignCount ==
    /\ pc = "L9"
    /\ count' = 0
    /\ pc' = "L10"
    /\ UNCHANGED <<last, nlines, inPass, passes, elapsed, sleeps>>

\* while count < 10
LoopCond_bounded == count < 10

\* line 10: the condition of the while statement
LoopCond == TRUE

\* line 10: test the condition; enter the body or fall off the end
LoopTest ==
    /\ pc = "L10"
    /\ IF LoopCond
         THEN /\ pc' = "L11"
              /\ passes' = passes + 1
              /\ inPass' = 0
         ELSE /\ pc' = "done"
              /\ UNCHANGED <<passes, inPass>>
    /\ UNCHANGED <<count, last, nlines, elapsed, sleeps>>

\* line 11 (explored while count < MaxCount)
Increment ==
    /\ pc = "L11"
    /\ count < MaxCount
    /\ count' = count + 1
    /\ pc' = "L13"
    /\ UNCHANGED <<last, nlines, inPass, passes, elapsed, sleeps>>

\* the import-error branch followed by sys.exit(1)
EmitImportError_exit ==
    /\ pc = "L13"
    /\ count % 8 = 0
    /\ Emit(ImportErrorLine)
    /\ pc' = "done"
    /\ UNCHANGED <<count, passes>>

\* lines 13-14
EmitImportError ==
    /\ pc = "L13"
    /\ count % 8 = 0
    /\ Emit(ImportErrorLine)
    /\ pc' = "L22"
    /\ UNCHANGED <<count, passes>>

\* the count % 12 test placed before the count % 8 test
EmitSuccess_first ==
    /\ pc = "L13"
    /\ count % 12 = 0
    /\ Emit(SuccessLine)
    /\ pc' = "L22"
    /\ UNCHANGED <<count, passes>>

\* lines 15-16
EmitSuccess ==
    /\ pc = "L13"
    /\ count % 8 # 0
    /\ count % 12 = 0
    /\ Emit(SuccessLine)
    /\ pc' = "L22"
    /\ UNCHANGED <<count, passes>>

\* lines 17-18
EmitBatch ==
    /\ pc = "L13"
    /\ count % 8 # 0
    /\ count % 12 # 0
    /\ count % 5 = 0
    /\ \E r \in RandInt : Emit(BatchLine(r))
    /\ pc' = "L22"
    /\ UNCHANGED <<count, passes>>

\* the else branch without its print call
EmitInfo_silent ==
    /\ pc = "L13"
    /\ count % 8 # 0
    /\ count % 12 # 0
    /\ count % 5 # 0
    /\ pc' = "L22"
    /\ UNCHANGED <<count, last, nlines, inPass, passes, elapsed, sleeps>>

\* lines 19-20
EmitInfo ==
    /\ pc = "L13"
    /\ count % 8 # 0
    /\ count % 12 # 0
    /\ count % 5 # 0
    /\ Emit(InfoLine(count))
    /\ pc' = "L22"
    /\ UNCHANGED <<count, passes>>

\* time.sleep(1)
Sleep_short ==
    /\ pc = "L22"
    /\ \E j \in 0 .. MaxJitter : elapsed' = elapsed + 1 + j
    /\ sleeps' = sleeps + 1
    /\ pc' = "L10"
    /\ UNCHANGED <<count, last, nlines, inPass, passes>>

\* line 22: suspend for at least SleepInterval seconds, then back to line 10
Sleep ==
    /\ pc = "L22"
    /\ \E j \in 0 .. MaxJitter : elapsed' = elapsed + SleepInterval + j
    /\ sleeps' = sleeps + 1
    /\ pc' = "L10"
    /\ UNCHANGED <<count, last, nlines, inPass, passes>>

Next ==
    \/ EmitStarting
    \/ EmitProject
    \/ AssignCount
    \/ LoopTest
    \/ Increment
    \/ EmitImportError
    \/ EmitSuccess
    \/ EmitBatch
    \/ EmitInfo
    \/ Sleep

Spec == Init /\ [][Next]_vars

\* the interpreter always runs the next statement of a live process
FairSpec == Spec /\ WF_vars(Next)

----------------------------------------------------------------------------
(* Reading a line back *)

IsDigit(c) == c \in {"0", "1", "2", "3", "4", "5", "6", "7", "8", "9"}

DigitVal(c) ==
    CASE c = "0" -> 0 [] c = "1" -> 1 [] c = "2" -> 2 [] c = "3" -> 3
      [] c = "4" -> 4 [] c = "5" -> 5 [] c = "6" -> 6 [] c = "7" -> 7
      [] c = "8" -> 8 [] c = "9" -> 9

\* s is a decimal numeral as a reader of the line sees it
IsNumeral(s) ==
    /\ Len(s) >= 1
    /\ \A i \in 1 .. Len(s) : IsDigit(s[i])
    /\ Len(s) > 1 => s[1] # "0"

RECURSIVE ParseDec(_)
ParseDec(s) ==
    IF Len(s) = 0 THEN 0
    ELSE 10 * ParseDec(SubSeq(s, 1, Len(s) - 1)) + DigitVal(s[Len(s)])

\* the tokens of t after its first k tokens and before its newline
Field(t, k) == SubSeq(t, k + 1, Len(t) - 1)

ImportErrorText ==
    <<"U+274C", " ImportError: No module named 'requests'", "\n">>

SuccessText == <<"U+2705", " Database connection successful", "\n">>

StartingText == <<"U+1F40D", " Starting Python application...", "\n">>

ProjectText == <<"U+1F4C1", " Project: test-python", "\n">>

IsBatchText(t) ==
    /\ Len(t) >= 4
    /\ t[1] = "U+1F4CA"
    /\ t[2] = " Processing data batch "
    /\ t[Len(t)] = "\n"
    /\ IsNumeral(Field(t, 2))
    /\ ParseDec(Field(t, 2)) \in 1 .. 100

IsInfoText(t, n) ==
    /\ Len(t) >= 3
    /\ t[1] = "[INFO] Application running - iteration "
    /\ t[Len(t)] = "\n"
    /\ IsNumeral(Field(t, 1))
    /\ ParseDec(Field(t, 1)) = n

\* line l is one that iteration n is to write
Qualifies(l, n) ==
    /\ n >= 1
    /\ \/ /\ l.stream = "stderr"
          /\ l.text = ImportErrorText
          /\ n % 8 = 0
       \/ /\ l.stream = "stdout"
          /\ l.text = SuccessText
          /\ n % 8 # 0 /\ n % 12 = 0
       \/ /\ l.stream = "stdout"
          /\ IsBatchText(l.text)
          /\ n % 8 # 0 /\ n % 12 # 0 /\ n % 5 = 0
       \/ /\ l.stream = "stdout"
          /\ IsInfoText(l.text, n)
          /\ n % 8 # 0 /\ n % 12 # 0 /\ n % 5 # 0

----------------------------------------------------------------------------
(* Properties *)

\* C1: in an iteration whose counter is a multiple of 8 the line written is
\* the import-error text on the error stream, also when the counter is a
\* multiple of 12 or of 5.
C1_ImportErrorWins ==
    [][(pc = "L13" /\ count % 8 = 0) =>
            /\ nlines' = nlines + 1
            /\ last' = [stream |-> "stderr", text |-> ImportErrorText]]_vars

C1_Witness ==
    /\ pc = "L22"
    /\ count = 40
    /\ nlines = 42
    /\ last = [stream |-> "stderr", text |-> ImportErrorText]

\* C2: every pass of the loop writes exactly one line, both streams counted
\* together: none before the branch is taken and one from then until the
\* pass ends.
C2_OneLinePerPass ==
    passes >= 1 =>
        /\ pc \in {"L11", "L13"} => inPass = 0
        /\ pc \in {"L22", "L10"} => inPass = 1
        /\ pc \in {"L22", "L10"} => nlines = 2 + passes
        /\ pc \in {"L11", "L13", "L22", "L10"}

C2_Witness ==
    /\ pc = "L22"
    /\ passes = 24
    /\ inPass = 1
    /\ nlines = 26

\* C3: in an iteration whose counter is a multiple of 12 and not of 8 the
\* line written is the success text on the output stream.
C3_Success ==
    [][(pc = "L13" /\ count % 8 # 0 /\ count % 12 = 0) =>
            /\ nlines' = nlines + 1
            /\ last' = [stream |-> "stdout", text |-> SuccessText]]_vars

C3_Witness ==
    /\ pc = "L22"
    /\ count = 12
    /\ last = [stream |-> "stdout", text |-> SuccessText]

\* C4: in an iteration whose counter is a multiple of 5 and of neither 8 nor
\* 12 the line written is the batch line on the output stream, and the
\* number in it is a numeral between 1 and 100, whatever the random choice.
C4_BatchRange ==
    [][(pc = "L13" /\ count % 8 # 0 /\ count % 12 # 0 /\ count % 5 = 0) =>
            /\ nlines' = nlines + 1
            /\ last'.stream = "stdout"
            /\ IsBatchText(last'.text)]_vars

C4_Witness ==
    /\ pc = "L22"
    /\ count = 5
    /\ last.stream = "stdout"
    /\ last.text = <<"U+1F4CA", " Processing data batch ", "1", "0", "0", "\n">>

\* C5: in an iteration whose counter n is a multiple of none of 8, 12 and 5
\* the line written is the heartbeat line on the output stream and the
\* number in it reads back as n.
C5_Heartbeat ==
    [][(pc = "L13" /\ count % 8 # 0 /\ count % 12 # 0 /\ count % 5 # 0) =>
            /\ nlines' = nlines + 1
            /\ last'.stream = "stdout"
            /\ IsInfoText(last'.text, count)]_vars

C5_Witness ==
    /\ pc = "L22"
    /\ count = 1
    /\ last = [stream |-> "stdout",
               text |-> <<"[INFO] Application running - iteration ", "1", "\n">>]

\* C6: the program never reaches the end of the module, and under fairness
\* every counter value of the explored range is reached and its line
\* written.
C6_NeverTerminates ==
    /\ [](pc # "done")
    /\ \A n \in 1 .. MaxCount :
          <>(count = n /\ pc = "L22" /\ inPass = 1 /\ nlines = n + 2)

C6_Witness ==
    /\ pc = "L10"
    /\ passes = MaxCount
    /\ count = MaxCount
    /\ nlines = MaxCount + 2

\* C7 as stated: whenever a line is written after an earlier one, at least
\* 3 seconds and a completed sleep lie between the two.
C7_Orig ==
    [][(nlines' = nlines + 1 /\ nlines >= 1) =>
            /\ elapsed >= 3
            /\ sleeps >= 1]_vars

\* C7: whenever the loop writes a line after an earlier line of the loop, at
\* least 3 seconds and a completed sleep lie between the two.
C7_LoopLinesSpaced ==
    [][(nlines' = nlines + 1 /\ passes >= 2) =>
            /\ elapsed >= 3
            /\ sleeps >= 1]_vars

C7_Witness ==
    /\ pc = "L13"
    /\ passes = 2
    /\ nlines = 3
    /\ elapsed >= 3
    /\ sleeps = 1

\* C8 as stated: every line written is a line of the iteration it is
\* written in: the import-error line on the error stream when the counter
\* is a multiple of 8, otherwise the success, batch or heartbeat line on the
\* output stream according to the counter.
C8_Orig ==
    [][nlines' = nlines + 1 => Qualifies(last', count')]_vars

\* C8: the first two lines written are the two banner lines on the output
\* stream, and every later line is a line of the iteration it is written in.
C8_StreamsAfterBanner ==
    [][nlines' = nlines + 1 =>
            CASE nlines = 0 ->
                   last' = [stream |-> "stdout", text |-> StartingText]
              [] nlines = 1 ->
                   last' = [stream |-> "stdout", text |-> ProjectText]
              [] OTHER -> Qualifies(last', count')]_vars

C8_Witness ==
    /\ pc = "L22"
    /\ count = 8
    /\ nlines = 10
    /\ last.stream = "stderr"

\* C9: the import-error branch is followed by the same sleep and the same
\* next iteration as any other branch: from the branch to the sleep with the
\* counter unchanged, a sleep of at least 3 seconds, back to the loop test,
\* into the body, and on to the branch with the counter one higher.
C9_ErrorKeepsLooping ==
    [][(count >= 1 /\ count % 8 = 0) =>
            /\ pc = "L13" => (pc' = "L22" /\ count' = count)
            /\ pc = "L22" => /\ pc' = "L10"
                             /\ count' = count
                             /\ elapsed' >= elapsed + 3
                             /\ sleeps' = sleeps + 1
            /\ pc = "L10" => (pc' = "L11" /\ count' = count)
            /\ pc = "L11" => (pc' = "L13" /\ count' = count + 1)]_vars

C9_Witness ==
    /\ pc = "L13"
    /\ count = 9
    /\ last = [stream |-> "stderr", text |-> ImportErrorText]
    /\ sleeps = 1

\* C10: the counter is 0 when the loop is first entered, only the increment
\* at the start of a pass changes it, by exactly 1, and in the k-th pass it
\* is k from the branch to the end of the pass.
C10_CounterIsPassNumber ==
    /\ [](pc = "L10" /\ passes = 0 => count = 0)
    /\ [](pc = "L11" => count = passes - 1)
    /\ [](pc \in {"L13", "L22"} => count = passes)
    /\ [][count' # count => (pc = "L11" /\ count' = count + 1)]_vars

C10_Witness ==
    /\ pc = "L22"
    /\ passes = 7
    /\ count = 7
    /\ IsInfoText(last.text, 7)

====
